---------------------------- MODULE Spec2Model ----------------------------
(***************************************************************************)
(* A state-machine model of discord_1.py: the module-level credential      *)
(* load, the WordcabBot session (setup_hook, on_ready, on_guild_join,      *)
(* on_guild_remove, close), the "hello" slash command and the __main__     *)
(* block.                                                                  *)
(*                                                                         *)
(* The discord.py client is the environment of the program.  What the      *)
(* model takes from it is its documented contract at the call site         *)
(* bot.run(token): run() enters "async with self", login() validates the   *)
(* token and then awaits setup_hook() exactly once, connect() performs the *)
(* gateway handshake and dispatches the events, the ready event is         *)
(* dispatched again whenever the gateway session is re-identified, and     *)
(* leaving "async with self" awaits self.close().                          *)
(***************************************************************************)
EXTENDS Integers, Sequences, FiniteSets, TLC

(***************************************************************************)
(* Bounds of the model.                                                    *)
(***************************************************************************)
MaxIdLen == 2          \* longest TESTING_GUILD_ID string that is tried
MaxReady == 2          \* READY events the gateway delivers
MaxGuildEvents == 1    \* guild joins and removals delivered
MaxInteractions == 2   \* hello interactions delivered
MaxCloseCalls == 2     \* calls of WordcabBot.close

(***************************************************************************)
(* Optional[T]: None is the empty sequence, a value v is <<v>>.            *)
(***************************************************************************)
None == <<>>
Some(v) == <<v>>
IsNone(o) == o = <<>>
Val(o) == o[1]

VARIABLES
    env,                  \* the process environment and the platform's verdicts
    pc,                   \* position of the module's top-level code
    DISCORD_BOT_TOKEN,    \* Optional[str]
    TESTING_GUILD_ID_STR, \* Optional[str], a string is a sequence of characters
    TESTING_GUILD_ID,     \* Optional[int]
    startupError,         \* the exception that aborted the module load
    botExists,            \* bot = WordcabBot(...) has run
    testing_guild_id,     \* bot.testing_guild_id, Optional[int]
    web_client,           \* bot.web_client, Optional[ClientSession]
    http,                 \* the ClientSession itself: "none", "open", "closed"
    httpCreated,          \* ClientSession() constructions
    httpCloseCalls,       \* web_client.close() calls issued
    commands,             \* bot.tree: names of the registered commands
    state,                \* the session state
    runPc,                \* position inside bot.run
    loginAttempts,        \* logins attempted with the token
    setupPc,              \* position inside setup_hook
    setupRuns,            \* setup_hook invocations
    syncs,                \* tree.sync calls issued, in order
    syncLog,              \* what setup_hook printed about the sync
    exc,                  \* the exception leaving bot.run
    closePc,              \* position inside close
    closeCalls,           \* close invocations
    closeReturns,         \* close invocations that returned
    connClosed,           \* super().close() has run
    readyEvents,          \* READY events delivered
    readyLogs,            \* identity lines printed by on_ready
    joinLogs,             \* lines printed by on_guild_join
    leaveLogs,            \* lines printed by on_guild_remove
    inter,                \* the hello interactions
    diag                  \* the diagnostic printed by __main__

vars == <<env, pc, DISCORD_BOT_TOKEN, TESTING_GUILD_ID_STR, TESTING_GUILD_ID,
          startupError, botExists, testing_guild_id, web_client, http,
          httpCreated, httpCloseCalls, commands, state, runPc, loginAttempts,
          setupPc, setupRuns, syncs, syncLog, exc, closePc, closeCalls,
          closeReturns, connClosed, readyEvents, readyLogs,
          joinLogs, leaveLogs, inter, diag>>

credVars == <<DISCORD_BOT_TOKEN, TESTING_GUILD_ID_STR, TESTING_GUILD_ID>>
botVars == <<botExists, testing_guild_id, commands>>
httpVars == <<web_client, http, httpCreated, httpCloseCalls>>
setupVars == <<setupPc, setupRuns, syncs, syncLog>>
closeVars == <<closePc, closeCalls, closeReturns, connClosed>>
hookVars == <<readyEvents, readyLogs, joinLogs, leaveLogs>>

(***************************************************************************)
(* Strings of the environment and Python's int() and truth value.          *)
(***************************************************************************)
Digits == {"0", "1"}
Chars == Digits \cup {"-", "x"}
DigitValue(c) == IF c = "0" THEN 0 ELSE 1

Strings(n) == UNION {[1..k -> Chars] : k \in 0..n}

RECURSIVE DecimalValue(_)
DecimalValue(s) ==
    IF s = <<>> THEN 0
    ELSE DecimalValue(SubSeq(s, 1, Len(s) - 1)) * 10 + DigitValue(s[Len(s)])

Unsigned(s) == IF Len(s) > 0 /\ s[1] = "-" THEN Tail(s) ELSE s

\* int(s) raises ValueError unless s is an optional sign and one or more digits
IsIntLiteral(s) ==
    /\ Len(Unsigned(s)) > 0
    /\ \A k \in 1..Len(Unsigned(s)) : Unsigned(s)[k] \in Digits

int(s) ==
    IF Len(s) > 0 /\ s[1] = "-" THEN 0 - DecimalValue(Unsigned(s))
    ELSE DecimalValue(s)

TruthyStr(o) == ~IsNone(o) /\ Val(o) # <<>>
TruthyToken(o) == ~IsNone(o) /\ Val(o) # ""
TruthyInt(o) == ~IsNone(o) /\ Val(o) # 0
TruthyObject(o) == ~IsNone(o)

Tokens == {"", "good", "bad"}
\* the platform's verdict on a token
TokenAccepted(t) == t = "good"

Names == {"Ada", "Bob"}

NoInteraction == [pc |-> "absent", name |-> "", sent |-> <<>>]

Init ==
    /\ env \in [token : {None} \cup {Some(t) : t \in Tokens},
                guild : {None} \cup {Some(s) : s \in Strings(MaxIdLen)},
                intentsOK : BOOLEAN]
    /\ pc = "load"
    /\ DISCORD_BOT_TOKEN = None
    /\ TESTING_GUILD_ID_STR = None
    /\ TESTING_GUILD_ID = None
    /\ startupError = "none"
    /\ botExists = FALSE
    /\ testing_guild_id = None
    /\ web_client = None
    /\ http = "none"
    /\ httpCreated = 0
    /\ httpCloseCalls = 0
    /\ commands = {}
    /\ state = "NotConstructed"
    /\ runPc = "idle"
    /\ loginAttempts = 0
    /\ setupPc = "idle"
    /\ setupRuns = 0
    /\ syncs = <<>>
    /\ syncLog = "none"
    /\ exc = "none"
    /\ closePc = "idle"
    /\ closeCalls = 0
    /\ closeReturns = 0
    /\ connClosed = FALSE
    /\ readyEvents = 0
    /\ readyLogs = 0
    /\ joinLogs = 0
    /\ leaveLogs = 0
    /\ inter = [i \in 1..MaxInteractions |-> NoInteraction]
    /\ diag = "none"

(***************************************************************************)
(* Module level, lines 13-21: the credentials.                             *)
(***************************************************************************)
LoadCredentials ==
    /\ pc = "load"
    /\ DISCORD_BOT_TOKEN' = env.token
    /\ TESTING_GUILD_ID_STR' = env.guild
    /\ IF TruthyStr(env.guild)
       THEN IF IsIntLiteral(Val(env.guild))
            THEN /\ TESTING_GUILD_ID' = Some(int(Val(env.guild)))
                 /\ pc' = "check_token"
                 /\ UNCHANGED startupError
            ELSE /\ startupError' = "ValueError: invalid literal for int()"
                 /\ pc' = "crashed"
                 /\ UNCHANGED TESTING_GUILD_ID
       ELSE /\ TESTING_GUILD_ID' = None
            /\ pc' = "check_token"
            /\ UNCHANGED startupError
    /\ UNCHANGED <<env, botVars, httpVars, state, runPc, loginAttempts,
                   setupVars, exc, closeVars, hookVars, inter, diag>>

\* the check written as "is None": an empty token passes
CheckToken_NoneOnly ==
    /\ pc = "check_token"
    /\ IF IsNone(DISCORD_BOT_TOKEN)
       THEN /\ startupError' = "ValueError: DISCORD_BOT_TOKEN not set"
            /\ pc' = "crashed"
       ELSE /\ pc' = "construct"
            /\ UNCHANGED startupError
    /\ UNCHANGED <<env, credVars, botVars, httpVars, state, runPc,
                   loginAttempts, setupVars, exc, closeVars, hookVars, inter,
                   diag>>

CheckToken ==
    /\ pc = "check_token"
    /\ IF ~TruthyToken(DISCORD_BOT_TOKEN)
       THEN /\ startupError' = "ValueError: DISCORD_BOT_TOKEN not set"
            /\ pc' = "crashed"
       ELSE /\ pc' = "construct"
            /\ UNCHANGED startupError
    /\ UNCHANGED <<env, credVars, botVars, httpVars, state, runPc,
                   loginAttempts, setupVars, exc, closeVars, hookVars, inter,
                   diag>>

(***************************************************************************)
(* Lines 27-39 and 129: bot = WordcabBot(intents=..., testing_guild_id=..) *)
(***************************************************************************)
Construct ==
    /\ pc = "construct"
    /\ botExists' = TRUE
    /\ testing_guild_id' = TESTING_GUILD_ID
    /\ web_client' = None
    /\ state' = "Unconnected"
    /\ pc' = "register"
    /\ UNCHANGED <<env, credVars, startupError, commands, http, httpCreated,
                   httpCloseCalls, runPc, loginAttempts, setupVars, exc,
                   closeVars, hookVars, inter, diag>>

(***************************************************************************)
(* Lines 132-133: @bot.tree.command(name="hello", ...)                     *)
(***************************************************************************)
RegisterHello ==
    /\ pc = "register"
    /\ commands' = commands \cup {"hello"}
    /\ pc' = "main"
    /\ UNCHANGED <<env, credVars, startupError, botExists, testing_guild_id,
                   httpVars, state, runPc, loginAttempts, setupVars, exc,
                   closeVars, hookVars, inter, diag>>

(***************************************************************************)
(* Lines 139-143: bot.run(DISCORD_BOT_TOKEN) is entered.                   *)
(***************************************************************************)
Main ==
    /\ pc = "main"
    /\ pc' = "running"
    /\ runPc' = "login"
    /\ UNCHANGED <<env, credVars, startupError, botVars, httpVars, state,
                   loginAttempts, setupVars, exc, closeVars, hookVars, inter,
                   diag>>

(***************************************************************************)
(* Inside bot.run: login.  A rejected token raises LoginFailure before     *)
(* setup_hook is awaited; an accepted one awaits setup_hook.               *)
(***************************************************************************)
Login ==
    /\ runPc = "login"
    /\ loginAttempts' = loginAttempts + 1
    /\ IF TokenAccepted(Val(DISCORD_BOT_TOKEN))
       THEN /\ runPc' = "setup"
            /\ state' = "SettingUp"
            /\ setupPc' = "start"
            /\ UNCHANGED exc
       ELSE /\ runPc' = "exit"
            /\ exc' = "LoginFailure"
            /\ UNCHANGED <<state, setupPc>>
    /\ UNCHANGED <<env, pc, credVars, startupError, botVars, httpVars,
                   setupRuns, syncs, syncLog, closeVars, hookVars, inter,
                   diag>>

(***************************************************************************)
(* setup_hook, lines 57-109.                                               *)
(***************************************************************************)
\* line 72: if self.testing_guild_id:
SyncsTestGuild(id) == TruthyInt(id)

\* lines 62-76: the session is created, then the sync policy is applied up
\* to the await of tree.sync
SetupHookBegin ==
    /\ setupPc = "start"
    /\ setupRuns' = setupRuns + 1
    /\ web_client' = Some("ClientSession")
    /\ http' = "open"
    /\ httpCreated' = httpCreated + 1
    /\ IF SyncsTestGuild(testing_guild_id)
       THEN /\ syncs' = Append(syncs, [scope |-> "guild",
                                       id |-> Val(testing_guild_id)])
            /\ setupPc' = "syncing"
       ELSE /\ setupPc' = "finished"
            /\ UNCHANGED syncs
    /\ UNCHANGED <<env, pc, credVars, startupError, botVars, httpCloseCalls,
                   state, runPc, loginAttempts, syncLog, exc, closeVars,
                   hookVars, inter, diag>>

\* what the awaited tree.sync can end with; CancelledError is a
\* BaseException, the others are Exceptions
SyncOutcomes == {"ok", "Forbidden", "HTTPException", "CancelledError"}
SyncFailures == {"Forbidden", "HTTPException"}

\* the handler chain without its "except Exception" clause
CaughtBySetupHook_OnlyForbidden(outcome) == outcome = "Forbidden"

\* lines 78-81: except discord.errors.Forbidden / except Exception
CaughtBySetupHook(outcome) == outcome \in {"Forbidden", "HTTPException"}

\* lines 76-81 and 109: the await returns or raises
SetupHookSyncDone ==
    /\ setupPc = "syncing"
    /\ \E outcome \in SyncOutcomes :
         IF outcome = "ok" \/ CaughtBySetupHook(outcome)
         THEN /\ syncLog' = outcome
              /\ setupPc' = "finished"
              /\ UNCHANGED <<exc, runPc>>
         ELSE /\ setupPc' = "aborted"
              /\ exc' = outcome
              /\ runPc' = "exit"
              /\ UNCHANGED syncLog
    /\ UNCHANGED <<env, pc, credVars, startupError, botVars, httpVars, state,
                   loginAttempts, setupRuns, syncs, closeVars, hookVars,
                   inter, diag>>

(***************************************************************************)
(* Inside bot.run: connect.  The handshake fails with                      *)
(* PrivilegedIntentsRequired when the intents of lines 122-125 are not     *)
(* enabled for the application; otherwise the event loop is entered.       *)
(***************************************************************************)
Connect ==
    /\ runPc = "setup"
    /\ setupPc = "finished"
    /\ IF env.intentsOK
       THEN /\ runPc' = "ready"
            /\ state' = "Ready"
            /\ UNCHANGED exc
       ELSE /\ runPc' = "exit"
            /\ exc' = "PrivilegedIntentsRequired"
            /\ UNCHANGED state
    /\ UNCHANGED <<env, pc, credVars, startupError, botVars, httpVars,
                   loginAttempts, setupVars, closeVars, hookVars, inter,
                   diag>>

\* the event loop runs tasks while bot.run has not returned
LoopRunning == pc = "running" /\ runPc # "done"

(***************************************************************************)
(* The observability hooks, lines 41-55, each run on the delivery of its   *)
(* event.  READY is delivered after the first identify and again after     *)
(* every re-identify of an invalidated gateway session.                    *)
(***************************************************************************)
on_ready ==
    /\ runPc = "ready"
    /\ readyEvents < MaxReady
    /\ readyEvents' = readyEvents + 1
    /\ readyLogs' = readyLogs + 1
    /\ UNCHANGED <<env, pc, credVars, startupError, botVars, httpVars, state,
                   runPc, loginAttempts, setupVars, exc, closeVars, joinLogs,
                   leaveLogs, inter, diag>>

\* line 51 active: the join handler syncs the command tree to the guild
on_guild_join_Resync ==
    /\ runPc = "ready"
    /\ joinLogs + leaveLogs < MaxGuildEvents
    /\ joinLogs' = joinLogs + 1
    /\ syncs' = Append(syncs, [scope |-> "guild", id |-> 1])
    /\ UNCHANGED <<env, pc, credVars, startupError, botVars, httpVars, state,
                   runPc, loginAttempts, setupPc, setupRuns, syncLog, exc,
                   closeVars, readyEvents, readyLogs, leaveLogs, inter, diag>>

on_guild_join ==
    /\ runPc = "ready"
    /\ joinLogs + leaveLogs < MaxGuildEvents
    /\ joinLogs' = joinLogs + 1
    /\ UNCHANGED <<env, pc, credVars, startupError, botVars, httpVars, state,
                   runPc, loginAttempts, setupVars, exc, closeVars,
                   readyEvents, readyLogs, leaveLogs, inter, diag>>

on_guild_remove ==
    /\ runPc = "ready"
    /\ joinLogs + leaveLogs < MaxGuildEvents
    /\ leaveLogs' = leaveLogs + 1
    /\ UNCHANGED <<env, pc, credVars, startupError, botVars, httpVars, state,
                   runPc, loginAttempts, setupVars, exc, closeVars,
                   readyEvents, readyLogs, joinLogs, inter, diag>>

(***************************************************************************)
(* The hello command, lines 132-136.                                       *)
(***************************************************************************)
\* the greeting without its closing mark
Greeting_NoBang(user_name) == "Hello " \o user_name

\* line 136: f"Hello {user_name}!"
Greeting(user_name) == "Hello " \o user_name \o "!"

\* lines 135-136 up to the await, for the next interaction the gateway
\* delivers, invoked by a user named n: the name is read and the send issued
hello_command ==
    /\ runPc = "ready"
    /\ "hello" \in commands
    /\ \E i \in 1..MaxInteractions, n \in Names :
         /\ inter[i].pc = "absent"
         /\ \A j \in 1..(i - 1) : inter[j].pc # "absent"
         /\ inter' = [inter EXCEPT ![i] = [pc |-> "awaiting", name |-> n,
                                           sent |-> <<Greeting(n)>>]]
    /\ UNCHANGED <<env, pc, credVars, startupError, botVars, httpVars, state,
                   runPc, loginAttempts, setupVars, exc, closeVars, hookVars,
                   diag>>

\* line 136: the awaited send_message returns and the handler ends
hello_command_return ==
    /\ LoopRunning
    /\ \E i \in 1..MaxInteractions :
         /\ inter[i].pc = "awaiting"
         /\ inter' = [inter EXCEPT ![i].pc = "done"]
    /\ UNCHANGED <<env, pc, credVars, startupError, botVars, httpVars, state,
                   runPc, loginAttempts, setupVars, exc, closeVars, hookVars,
                   diag>>

(***************************************************************************)
(* Inside bot.run: what ends the ready loop.                               *)
(***************************************************************************)
\* an error the gateway loop does not recover from
ReadyLoopFault ==
    /\ runPc = "ready"
    /\ runPc' = "exit"
    /\ exc' = "Fault"
    /\ UNCHANGED <<env, pc, credVars, startupError, botVars, httpVars, state,
                   loginAttempts, setupVars, closeVars, hookVars, inter, diag>>

\* the termination signal: the running task is cancelled
TerminationSignal ==
    /\ runPc = "ready"
    /\ runPc' = "exit"
    /\ exc' = "CancelledError"
    /\ UNCHANGED <<env, pc, credVars, startupError, botVars, httpVars, state,
                   loginAttempts, setupVars, closeVars, hookVars, inter, diag>>

\* leaving "async with self": close is awaited
RunnerExit ==
    /\ runPc = "exit"
    /\ closePc = "idle"
    /\ runPc' = "closing"
    /\ closePc' = "called"
    /\ closeCalls' = closeCalls + 1
    /\ UNCHANGED <<env, pc, credVars, startupError, botVars, httpVars, state,
                   loginAttempts, setupVars, exc, closeReturns, connClosed,
                   hookVars, inter, diag>>

(***************************************************************************)
(* close, lines 111-118.                                                   *)
(***************************************************************************)
\* close with its two awaits in the other order: the connection goes first
CloseWebClient_ConnectionFirst ==
    /\ closePc = "called"
    /\ connClosed' = TRUE
    /\ state' = "Closed"
    /\ closePc' = "super"
    /\ UNCHANGED <<env, pc, credVars, startupError, botVars, httpVars, runPc,
                   loginAttempts, setupVars, exc, closeCalls, closeReturns,
                   hookVars, inter, diag>>

\* close without the release of the session
CloseWebClient_Skip ==
    /\ closePc = "called"
    /\ closePc' = "super"
    /\ UNCHANGED <<env, pc, credVars, startupError, botVars, httpVars, state,
                   runPc, loginAttempts, setupVars, exc, closeCalls,
                   closeReturns, connClosed, hookVars, inter, diag>>

\* lines 113-116: if self.web_client: await self.web_client.close()
\* (closing a ClientSession that is closed already leaves it closed)
CloseWebClient ==
    /\ closePc = "called"
    /\ IF TruthyObject(web_client)
       THEN /\ httpCloseCalls' = httpCloseCalls + 1
            /\ http' = "closed"
       ELSE UNCHANGED <<httpCloseCalls, http>>
    /\ closePc' = "super"
    /\ UNCHANGED <<env, pc, credVars, startupError, botVars, web_client,
                   httpCreated, state, runPc, loginAttempts, setupVars, exc,
                   closeCalls, closeReturns, connClosed, hookVars, inter,
                   diag>>

\* lines 117-118: await super().close()
CloseConnection ==
    /\ closePc = "super"
    /\ connClosed' = TRUE
    /\ state' = "Closed"
    /\ closePc' = "returned"
    /\ closeReturns' = closeReturns + 1
    /\ UNCHANGED <<env, pc, credVars, startupError, botVars, httpVars, runPc,
                   loginAttempts, setupVars, exc, closeCalls, hookVars, inter,
                   diag>>

\* close is called again after it has returned
CloseAgain ==
    /\ LoopRunning
    /\ closePc = "returned"
    /\ closeCalls < MaxCloseCalls
    /\ closePc' = "called"
    /\ closeCalls' = closeCalls + 1
    /\ UNCHANGED <<env, pc, credVars, startupError, botVars, httpVars, state,
                   runPc, loginAttempts, setupVars, exc, closeReturns,
                   connClosed, hookVars, inter, diag>>

\* bot.run returns or raises into the try block of __main__
RunReturns ==
    /\ runPc = "closing"
    /\ closePc = "returned"
    /\ runPc' = "done"
    /\ pc' = "handling"
    /\ UNCHANGED <<env, credVars, startupError, botVars, httpVars, state,
                   loginAttempts, setupVars, exc, closeVars, hookVars, inter,
                   diag>>

(***************************************************************************)
(* __main__, lines 144-149: the except clauses.  bot.run itself swallows   *)
(* the interrupt of a termination signal.                                  *)
(***************************************************************************)
\* the except clauses without the one for discord.LoginFailure
Diagnostic_NoLoginClause(e) ==
    CASE e = "PrivilegedIntentsRequired" -> "Error: Privileged intents are not enabled."
      [] e = "CancelledError" -> "none"
      [] OTHER -> "An unexpected error occurred"

Diagnostic(e) ==
    CASE e = "LoginFailure" -> "Error: Invalid Discord Token."
      [] e = "PrivilegedIntentsRequired" -> "Error: Privileged intents are not enabled."
      [] e = "CancelledError" -> "none"
      [] OTHER -> "An unexpected error occurred"

MainExcept ==
    /\ pc = "handling"
    /\ diag' = Diagnostic(exc)
    /\ pc' = "exited"
    /\ UNCHANGED <<env, credVars, startupError, botVars, httpVars, state,
                   runPc, loginAttempts, setupVars, exc, closeVars, hookVars,
                   inter>>

Next ==
    \/ LoadCredentials
    \/ CheckToken
    \/ Construct
    \/ RegisterHello
    \/ Main
    \/ Login
    \/ SetupHookBegin
    \/ SetupHookSyncDone
    \/ Connect
    \/ on_ready
    \/ on_guild_join
    \/ on_guild_remove
    \/ hello_command
    \/ hello_command_return
    \/ ReadyLoopFault
    \/ TerminationSignal
    \/ RunnerExit
    \/ CloseWebClient
    \/ CloseConnection
    \/ CloseAgain
    \/ RunReturns
    \/ MainExcept

Spec == Init /\ [][Next]_vars

(***************************************************************************)
(* The properties.                                                         *)
(***************************************************************************)
Terminated == pc \in {"handling", "exited", "crashed"}
TokenMissing == ~TruthyToken(env.token)
TokenRejected == TruthyToken(env.token) /\ ~TokenAccepted(Val(env.token))
TokenValid == TruthyToken(env.token) /\ TokenAccepted(Val(env.token))
SetupStarted == setupPc \in {"syncing", "finished", "aborted"}

\* C1: whenever the platform connection has been closed on a session that
\* owns an HTTP client, that client has been closed already: super().close()
\* never runs while the owned client is still open.
C1_HttpClosedBeforeConnection ==
    (connClosed /\ TruthyObject(web_client)) => http = "closed"

C1_Witness ==
    /\ connClosed
    /\ httpCreated = 1
    /\ http = "closed"
    /\ closeReturns = 1

\* C2: after two calls of close have returned, the close operation of the
\* owned HTTP client has been performed exactly once, and not at all when
\* the client was never created.
C2_HttpClosedExactlyOnce ==
    closeReturns >= 2 =>
        httpCloseCalls = (IF TruthyObject(web_client) THEN 1 ELSE 0)

\* C3: once bot.run has returned or the process has ended, a client that
\* the setup phase created is closed, whatever ended the run.
C3_NoLeakAtExit ==
    (Terminated /\ httpCreated > 0) => http = "closed"

C3_Witness ==
    /\ pc = "exited"
    /\ exc = "Fault"
    /\ httpCreated = 1
    /\ http = "closed"

\* C4: a step in which the awaited sync fails with Forbidden or any other
\* Exception leaves no exception pending, ends setup_hook with the HTTP
\* client acquired and leaves bot.run about to connect; and whenever such a
\* failure has been logged the setup phase has run to its end.
C4_SyncFailureCaught ==
    /\ [](syncLog \in SyncFailures =>
            setupPc = "finished" /\ http # "none" /\ TruthyObject(web_client))
    /\ [][(setupPc = "syncing" /\ setupPc' # "syncing"
             /\ (syncLog' \in SyncFailures \/ exc' \in SyncFailures))
          => (/\ syncLog' \in SyncFailures
              /\ exc' = "none"
              /\ setupPc' = "finished"
              /\ runPc' = "setup"
              /\ TruthyObject(web_client'))]_vars

C4_Witness ==
    /\ syncLog \in SyncFailures
    /\ state = "Ready"
    /\ http = "open"

\* C5: once the setup phase has applied its sync policy, a configured test
\* guild id (any integer) has exactly one sync call, to that guild, and no
\* global one; with no id configured there is no sync call.
C5_SyncPolicy ==
    SetupStarted =>
        IF IsNone(testing_guild_id)
        THEN syncs = <<>>
        ELSE syncs = <<[scope |-> "guild", id |-> Val(testing_guild_id)]>>

\* C6: with a valid token and authorized intents the setup phase runs at
\* most once, the identity line is printed at most once, and it is printed
\* only after the setup phase has finished.
C6_ReadyLoggedOnce ==
    (TokenValid /\ env.intentsOK) =>
        /\ setupRuns <= 1
        /\ readyLogs <= 1
        /\ (readyLogs >= 1 => setupPc = "finished" /\ setupRuns = 1)

\* C7: with a token the platform rejects, the setup phase never runs, no HTTP
\* client is created, no sync is issued, the session is never SettingUp or
\* Ready, the login is attempted at most once, the exception leaving bot.run
\* is LoginFailure and the process exits with the invalid-token diagnostic.
C7_InvalidTokenNeverSetsUp ==
    TokenRejected =>
        /\ setupRuns = 0
        /\ setupPc = "idle"
        /\ http = "none"
        /\ IsNone(web_client)
        /\ syncs = <<>>
        /\ state \notin {"SettingUp", "Ready"}
        /\ loginAttempts <= 1
        /\ exc \in {"none", "LoginFailure"}
        /\ (pc = "exited" =>
              /\ loginAttempts = 1
              /\ diag = "Error: Invalid Discord Token.")

C7_Witness ==
    /\ TokenRejected
    /\ pc = "exited"
    /\ exc = "LoginFailure"
    /\ diag = "Error: Invalid Discord Token."

\* what the user named n is to read
ExpectedResponse == ("Ada" :> "Hello Ada!") @@ ("Bob" :> "Hello Bob!")

\* C8: every hello interaction that reached its handler has exactly one
\* response, "Hello <display name>!" for its own user's display name, however
\* the handlers of several interactions interleave; an interaction that has
\* not arrived has none.
C8_HelloResponse ==
    \A i \in 1..MaxInteractions :
        IF inter[i].pc = "absent"
        THEN inter[i].sent = <<>>
        ELSE /\ inter[i].name \in Names
             /\ inter[i].sent = <<ExpectedResponse[inter[i].name]>>

C8_Witness ==
    /\ inter[1].pc = "awaiting"
    /\ inter[2].pc = "awaiting"
    /\ inter[1].name = "Ada"
    /\ inter[2].name = "Bob"
    /\ inter[1].sent = <<"Hello Ada!">>
    /\ inter[2].sent = <<"Hello Bob!">>

\* C9: with the token variable unset or empty the module load ends in the
\* startup error before the bot is constructed, before a command is
\* registered and before bot.run is entered; and once the credentials have
\* been read, the token, the guild id string, the guild id and the bot's
\* copy of it never change.
C9_FailFastAndImmutable ==
    /\ [](TokenMissing =>
            /\ pc \in {"load", "check_token", "crashed"}
            /\ ~botExists
            /\ commands = {}
            /\ state = "NotConstructed"
            /\ runPc = "idle"
            /\ loginAttempts = 0)
    /\ [][/\ (pc = "check_token" /\ TokenMissing) => pc' = "crashed"
          /\ pc # "load" => UNCHANGED credVars
          /\ botExists => testing_guild_id' = testing_guild_id]_vars

C9_Witness ==
    /\ env.token = Some("")
    /\ pc = "crashed"
    /\ startupError = "ValueError: DISCORD_BOT_TOKEN not set"
    /\ ~botExists

StateEdges ==
    { <<"NotConstructed", "Unconnected">>, <<"Unconnected", "SettingUp">>,
      <<"SettingUp", "Ready">>, <<"Ready", "Closed">>,
      <<"SettingUp", "Closed">>, <<"Unconnected", "Closed">> }

\* C10: the session state changes only along the edges of StateEdges; Ready
\* holds only after the setup phase has finished with the HTTP client
\* created; a step of on_ready, on_guild_join or on_guild_remove changes
\* nothing but its own log and issues no sync; and once Closed the session
\* stays Closed, the setup phase does not run again and no HTTP client is
\* created.
C10_StateMachine ==
    /\ [](state = "Ready" =>
            setupPc = "finished" /\ setupRuns = 1 /\ httpCreated = 1)
    /\ [][/\ state' # state => <<state, state'>> \in StateEdges
          /\ hookVars' # hookVars =>
               UNCHANGED <<state, httpVars, setupVars, closeVars, botVars,
                           credVars, runPc, inter>>
          /\ state = "Closed" =>
               /\ state' = "Closed"
               /\ UNCHANGED <<web_client, httpCreated, setupVars>>]_vars

C10_Witness ==
    /\ state = "Closed"
    /\ closeReturns = 2
    /\ readyLogs >= 1
    /\ joinLogs = 1
    /\ httpCreated = 1

=============================================================================
